---- MODULE Spec2Model ----
(***************************************************************************)
(* Model of menu_from_project/logic/project_read.py: the read-side walk    *)
(* that turns a QGIS project's layer tree into a MenuProjectConfig.        *)
(*                                                                         *)
(* The host objects (QgsProject, QgsLayerTreeNode, QgsMapLayer and the     *)
(* QDomDocument) are state: `project` and `doc`.  The functions of the     *)
(* module are operators over that state; the recursion of                  *)
(* get_group_menu_config is unfolded into a stack of frames so that every  *)
(* loop iteration is one step.                                             *)
(***************************************************************************)
EXTENDS Integers, Sequences, FiniteSets, TLC

VARIABLES
    project,    \* the QgsProject: absoluteFilePath, layer tree, layer registry
    doc,        \* the QDomDocument: its "maplayer" elements in document order
    pc,         \* "idle" | "walking" | "done" | "failed"
    call,       \* arguments of the running / last get_project_menu_config
    stack,      \* frames of get_group_menu_config, innermost last
    result,     \* what get_project_menu_config returned (NoResult if nothing)
    runs,       \* number of get_project_menu_config calls started so far
    prev,       \* outcome of the previous get_project_menu_config call
    probe       \* outcome of the last direct call of one of the helpers

vars == <<project, doc, pc, call, stack, result, runs, prev, probe>>

----------------------------------------------------------------------------
(* Bounds of the model.                                                    *)

\* number of layer-tree nodes of a project under Spec, the root included
MaxNodes == 4
\* depth of the deepest node of a project under SpecEmbedded (root = 0)
MaxDepth == 2
\* number of "maplayer" elements of the document under SpecNotes
MaxDocLen == 2
\* number of get_project_menu_config calls on one project
MaxRuns == 2

----------------------------------------------------------------------------
(* Python values as the code sees them.                                    *)

PyNone == [t |-> "none"]
PyInt(i) == [t |-> "int", i |-> i]
PyStr(s) == [t |-> "str", s |-> s]

\* Python truth value of a custom property, as tested by `if ...:`
Truthy(v) ==
    CASE v.t = "none" -> FALSE
      [] v.t = "int"  -> v.i /= 0
      [] v.t = "str"  -> v.s /= ""

\* QgsMapLayerType
VectorLayer == "VectorLayer"
LayerTypes ==
    {"VectorLayer", "RasterLayer", "PluginLayer", "MeshLayer",
     "VectorTileLayer", "AnnotationLayer", "PointCloudLayer", "GroupLayer"}

\* QgsLayerTreeNode.NodeType
NodeGroup == "NodeGroup"
NodeLayer == "NodeLayer"
NodeCustom == "NodeCustom"

\* Python None where a layer, a parent node or a geometry type is expected
NoNode == -1
NoLayer == [isNone |-> TRUE]
NoGeometry == "None"

----------------------------------------------------------------------------
(* Host accessors.                                                         *)

Nodes(p) == DOMAIN p.tree

\* layer_tree.customProperty(key)
customProperty(p, layer_tree, key) == p.tree[layer_tree].props[key]

\* layer_tree.parent()
parent(p, layer_tree) == p.tree[layer_tree].parent

\* project.readPath(src): "" for a missing or empty value, a relative path is
\* resolved against the project's directory, an absolute one is kept
readPath(p, v) ==
    CASE v.t = "none" -> ""
      [] v.t = "str" /\ v.s = "" -> ""
      [] v.t = "str" /\ v.s = "./a.qgs" -> "/proj/a.qgs"
      [] OTHER -> v.s

\* project.mapLayer(layer_id): the layer, or None for an unknown identifier
mapLayer(p, layer_id) ==
    IF layer_id \in DOMAIN p.mapLayers THEN p.mapLayers[layer_id] ELSE NoLayer

----------------------------------------------------------------------------
(* get_embedded_project_from_layer_tree, lines 60-77.                      *)

\* One activation of the function; `ups` counts the parent steps taken so
\* far by the enclosing call and is returned with the filename.
RECURSIVE embedded_project_call(_, _, _)
embedded_project_call(layer_tree, p, ups) ==
    LET filename == readPath(p, customProperty(p, layer_tree, "embedded_project"))
    IN  IF filename = "" /\ parent(p, layer_tree) /= NoNode
        THEN embedded_project_call(parent(p, layer_tree), p, ups + 1)
        ELSE [filename |-> filename, ups |-> ups, at |-> layer_tree]

\* mutant of get_embedded_project_from_layer_tree: the parent is asked
\* first and the node's own property only when the parent gives nothing
RECURSIVE get_embedded_project_parent_first(_, _)
get_embedded_project_parent_first(layer_tree, p) ==
    LET own == readPath(p, customProperty(p, layer_tree, "embedded_project"))
        up == IF parent(p, layer_tree) = NoNode THEN ""
              ELSE get_embedded_project_parent_first(parent(p, layer_tree), p)
    IN  IF up /= "" THEN up ELSE own

get_embedded_project_from_layer_tree(layer_tree, p) ==
    embedded_project_call(layer_tree, p, 0).filename

\* mutant of read_embedded_properties: the filename is resolved from the
\* tree whether or not the node is marked
read_embedded_properties_always_resolved(layer_tree, p) ==
    [embedded |-> Truthy(customProperty(p, layer_tree, "embedded")),
     filename |-> get_embedded_project_from_layer_tree(layer_tree, p)]

\* mutant of read_embedded_properties: an empty embedded filename falls
\* back to the project's own file
read_embedded_properties_fallback(layer_tree, p) ==
    IF Truthy(customProperty(p, layer_tree, "embedded"))
    THEN LET f == get_embedded_project_from_layer_tree(layer_tree, p)
         IN  [embedded |-> TRUE,
              filename |-> IF f = "" THEN p.absoluteFilePath ELSE f]
    ELSE [embedded |-> FALSE, filename |-> p.absoluteFilePath]

(* read_embedded_properties, lines 80-101: the pair (embedded, filename).  *)
read_embedded_properties(layer_tree, p) ==
    IF Truthy(customProperty(p, layer_tree, "embedded"))
    THEN [embedded |-> TRUE,
          filename |-> get_embedded_project_from_layer_tree(layer_tree, p)]
    ELSE [embedded |-> FALSE, filename |-> p.absoluteFilePath]

----------------------------------------------------------------------------
(* The raw document.  A node is null (QDomNode().isNull()) or an element.  *)

NullNode == [isNull |-> TRUE]

\* <userNotes/> or <userNotes value="..."/>
UserNotesElement(hasValue, value) ==
    [isNull |-> FALSE, hasValue |-> hasValue, value |-> value]

\* <maplayer id="..."> with its userNotes child (NullNode when it has none)
MapLayerElement(id, userNotes) ==
    [isNull |-> FALSE, id |-> id, userNotes |-> userNotes]

\* xml_utils.getFirstChildByTagNameValue(doc.documentElement(), "maplayer",
\* "id", value): the first "maplayer" element, in document order, whose id
\* is `value`; a null node when there is none.
getFirstChildByTagNameValue(d, value) ==
    LET hits == {i \in 1..Len(d) : d[i].id = value}
    IN  IF hits = {} THEN NullNode
        ELSE d[CHOOSE i \in hits : \A j \in hits : i <= j]

\* QDomNode.namedItem("userNotes"): null on a null node or a missing child
namedItem(node) == IF node.isNull THEN NullNode ELSE node.userNotes

\* QDomNode.toElement().hasAttribute("value")
hasAttribute(elt) == IF elt.isNull THEN FALSE ELSE elt.hasValue

\* QDomNode.toElement().attribute("value")
attribute(elt) == IF hasAttribute(elt) THEN elt.value ELSE ""

----------------------------------------------------------------------------
(* Outcome of a call: a returned value or a raised exception.              *)

Returned(v) == [raised |-> FALSE, value |-> v]
Raised(exc) == [raised |-> TRUE, exc |-> exc]

\* mutant of get_layer_user_notes: the document is read for every layer
\* kind, the vector branch is gone
get_layer_user_notes_from_doc_only(layer, d) ==
    IF layer = NoLayer THEN Raised("AttributeError")
    ELSE LET elt_user_notes == namedItem(getFirstChildByTagNameValue(d, layer.id))
         IN  IF hasAttribute(elt_user_notes)
             THEN Returned(attribute(elt_user_notes))
             ELSE Returned("")

\* mutant of get_layer_user_notes: a layer with no element in the document
\* is an error
get_layer_user_notes_unmatched_raises(layer, d) ==
    IF layer = NoLayer THEN Raised("AttributeError")
    ELSE IF layer.type /= VectorLayer
    THEN LET node == getFirstChildByTagNameValue(d, layer.id)
             elt_user_notes == namedItem(node)
         IN  IF node.isNull THEN Raised("AttributeError")
             ELSE IF hasAttribute(elt_user_notes)
             THEN Returned(attribute(elt_user_notes))
             ELSE Returned("")
    ELSE Returned(layer.notes)

(* get_layer_user_notes, lines 104-127.  `layer` is what project.mapLayer  *)
(* gave: on None, layer.type() raises AttributeError.                      *)
get_layer_user_notes(layer, d) ==
    IF layer = NoLayer THEN Raised("AttributeError")
    ELSE IF layer.type /= VectorLayer
    THEN LET node == getFirstChildByTagNameValue(d, layer.id)
             elt_user_notes == namedItem(node)
         IN  IF hasAttribute(elt_user_notes)
             THEN Returned(attribute(elt_user_notes))
             ELSE Returned("")
    ELSE Returned(layer.notes)

\* mutant of geometry_type_of: the test of the layer type is negated
geometry_type_of_negated(layer) ==
    IF layer.type /= VectorLayer THEN layer.geometryType ELSE NoGeometry

\* lines 167-171: the geometry_type argument of MenuLayerConfig
geometry_type_of(layer) ==
    IF layer.type = VectorLayer THEN layer.geometryType ELSE NoGeometry

(* get_layer_menu_config, lines 130-173.                                   *)
get_layer_menu_config(layer_tree, p, d) ==
    LET ep == read_embedded_properties(layer_tree, p)
        node == p.tree[layer_tree]
        layer == mapLayer(p, node.layerId)
        layer_notes == get_layer_user_notes(layer, d)
    IN  IF layer_notes.raised THEN layer_notes
        ELSE Returned(
            [kind |-> "MenuLayerConfig",
             name |-> node.name,
             layer_id |-> node.layerId,
             filename |-> ep.filename,
             visible |-> node.visible,
             expanded |-> node.expanded,
             embedded |-> ep.embedded,
             layer_type |-> layer.type,
             metadata_abstract |-> layer.metadata_abstract,
             metadata_title |-> layer.metadata_title,
             abstract |-> layer.abstract,
             is_spatial |-> layer.isSpatial,
             title |-> layer.title,
             geometry_type |-> geometry_type_of(layer),
             layer_notes |-> layer_notes.value])

----------------------------------------------------------------------------
(* get_group_menu_config, lines 176-203, one for-loop iteration per step.  *)

NoResult == [kind |-> "None"]
NoProbe == [op |-> "none"]

\* mutant of Frame: childs is one list shared by the calls (a mutable
\* default), so a new build starts from what the last one collected
Frame_shared_childs(layer_tree, p) ==
    LET ep == read_embedded_properties(layer_tree, p)
    IN  [node |-> layer_tree, embedded |-> ep.embedded,
         filename |-> ep.filename,
         childs |-> IF pc = "done" THEN result.root_group.childs ELSE <<>>,
         i |-> 1]

\* lines 190-194: a fresh activation; `i` is the position of the for loop
\* in layer_tree.children()
Frame(layer_tree, p) ==
    LET ep == read_embedded_properties(layer_tree, p)
    IN  [node |-> layer_tree, embedded |-> ep.embedded,
         filename |-> ep.filename, childs |-> <<>>, i |-> 1]

\* mutant of AppendChild: childs.insert(0, ...) in place of childs.append
AppendChild_insert_first(frame, cfg) ==
    [frame EXCEPT !.childs = <<cfg>> \o @, !.i = @ + 1]

\* lines 198, 200: childs.append(...), then the loop moves on
AppendChild(frame, cfg) ==
    [frame EXCEPT !.childs = Append(@, cfg), !.i = @ + 1]

\* a child that is neither a group nor a layer: the loop moves on
NextChild(frame) == [frame EXCEPT !.i = @ + 1]

\* lines 201-203: the MenuGroupConfig an activation returns
MenuGroupConfig(frame, p) ==
    [kind |-> "MenuGroupConfig",
     name |-> p.tree[frame.node].name,
     embedded |-> frame.embedded,
     filename |-> frame.filename,
     childs |-> frame.childs]

\* lines 220-224: the MenuProjectConfig
MenuProjectConfig(args, root_group) ==
    [kind |-> "MenuProjectConfig",
     filename |-> args.filename,
     uri |-> args.uri,
     root_group |-> root_group]

Top == stack[Len(stack)]
Below == SubSeq(stack, 1, Len(stack) - 1)
InLoop == pc = "walking" /\ Top.i <= Len(project.tree[Top.node].children)
Child == project.tree[Top.node].children[Top.i]

\* the uris a caller passes: a local file, an http url, a postgres uri
Uris == {"/proj/main.qgs", "http://host/main.qgs"}

\* what a finished call left behind, kept to compare two calls
Outcome == [call |-> call, pc |-> pc, result |-> result]

HostUnchanged == UNCHANGED <<project, doc>>

(* get_project_menu_config, lines 206-224: the arguments are evaluated and *)
(* the root activation of get_group_menu_config starts.                    *)
StartProject ==
    /\ pc \in {"idle", "done", "failed"}
    /\ runs < MaxRuns
    /\ \E u \in Uris :
         call' = [uri |-> u, filename |-> project.absoluteFilePath]
    /\ prev' = IF pc = "idle" THEN prev ELSE Outcome
    /\ runs' = runs + 1
    /\ pc' = "walking"
    /\ stack' = <<Frame(project.root, project)>>
    /\ result' = NoResult
    /\ probe' = NoProbe
    /\ HostUnchanged

\* lines 197-198: the child is a group; recurse
EnterGroup ==
    /\ InLoop
    /\ project.tree[Child].nodeType = NodeGroup
    /\ stack' = Append(stack, Frame(Child, project))
    /\ UNCHANGED <<pc, call, result, runs, prev, probe>>
    /\ HostUnchanged

\* lines 199-200: the child is a layer and get_layer_menu_config returns
AppendLayer ==
    /\ InLoop
    /\ project.tree[Child].nodeType = NodeLayer
    /\ LET c == get_layer_menu_config(Child, project, doc)
       IN  /\ ~c.raised
           /\ stack' = Append(Below, AppendChild(Top, c.value))
    /\ UNCHANGED <<pc, call, result, runs, prev, probe>>
    /\ HostUnchanged

\* mutant of LayerRaises: the error is caught and the layer left out
LayerRaises_caught ==
    /\ InLoop
    /\ project.tree[Child].nodeType = NodeLayer
    /\ get_layer_menu_config(Child, project, doc).raised
    /\ stack' = Append(Below, NextChild(Top))
    /\ UNCHANGED <<pc, call, result, runs, prev, probe>>
    /\ HostUnchanged

\* lines 199-200: get_layer_menu_config raises; nothing on the call stack
\* catches, so every activation is unwound and the caller gets the error
LayerRaises ==
    /\ InLoop
    /\ project.tree[Child].nodeType = NodeLayer
    /\ LET c == get_layer_menu_config(Child, project, doc)
       IN  /\ c.raised
           /\ result' = [kind |-> "Raised", exc |-> c.exc]
    /\ pc' = "failed"
    /\ stack' = <<>>
    /\ UNCHANGED <<call, runs, prev, probe>>
    /\ HostUnchanged

\* mutant of SkipChild: the unsupported node is also hidden in the tree
SkipChild_hiding ==
    /\ InLoop
    /\ project.tree[Child].nodeType \notin {NodeGroup, NodeLayer}
    /\ stack' = Append(Below, NextChild(Top))
    /\ project' = [project EXCEPT !.tree[Child].visible = FALSE]
    /\ UNCHANGED <<doc, pc, call, result, runs, prev, probe>>

\* lines 196-200: neither branch matches
SkipChild ==
    /\ InLoop
    /\ project.tree[Child].nodeType \notin {NodeGroup, NodeLayer}
    /\ stack' = Append(Below, NextChild(Top))
    /\ UNCHANGED <<pc, call, result, runs, prev, probe>>
    /\ HostUnchanged

\* lines 201-203 then 198: a nested activation returns to its caller
ReturnGroup ==
    /\ pc = "walking"
    /\ ~InLoop
    /\ Len(stack) > 1
    /\ stack' = Append(SubSeq(stack, 1, Len(stack) - 2),
                       AppendChild(stack[Len(stack) - 1],
                                   MenuGroupConfig(Top, project)))
    /\ UNCHANGED <<pc, call, result, runs, prev, probe>>
    /\ HostUnchanged

\* lines 201-203 then 220-224: the root activation returns
ReturnProject ==
    /\ pc = "walking"
    /\ ~InLoop
    /\ Len(stack) = 1
    /\ result' = MenuProjectConfig(call, MenuGroupConfig(Top, project))
    /\ pc' = "done"
    /\ stack' = <<>>
    /\ UNCHANGED <<call, runs, prev, probe>>
    /\ HostUnchanged

----------------------------------------------------------------------------
(* Direct calls of the helpers, on a project no build has run on yet.      *)

Callable == pc = "idle"
KeepWalk == UNCHANGED <<pc, call, stack, result, runs, prev>>

CallGetEmbeddedProject ==
    /\ Callable
    /\ \E n \in Nodes(project) :
         probe' = [op |-> "get_embedded_project_from_layer_tree",
                   node |-> n,
                   out |-> get_embedded_project_from_layer_tree(n, project),
                   ups |-> embedded_project_call(n, project, 0).ups]
    /\ KeepWalk
    /\ HostUnchanged

CallReadEmbedded ==
    /\ Callable
    /\ \E n \in Nodes(project) :
         probe' = [op |-> "read_embedded_properties",
                   node |-> n,
                   out |-> read_embedded_properties(n, project)]
    /\ KeepWalk
    /\ HostUnchanged

CallLayerUserNotes ==
    /\ Callable
    /\ \E id \in DOMAIN project.mapLayers :
         probe' = [op |-> "get_layer_user_notes",
                   layer |-> id,
                   out |-> get_layer_user_notes(mapLayer(project, id), doc)]
    /\ KeepWalk
    /\ HostUnchanged

CallLayerMenuConfig ==
    /\ Callable
    /\ \E n \in Nodes(project) :
         /\ project.tree[n].nodeType = NodeLayer
         /\ probe' = [op |-> "get_layer_menu_config",
                      node |-> n,
                      out |-> get_layer_menu_config(n, project, doc)]
    /\ KeepWalk
    /\ HostUnchanged

----------------------------------------------------------------------------
(* Projects the host can hand over.                                        *)

ProjectFile == "/proj/main.qgs"
NoOutcome == [pc |-> "none"]

\* a QgsLayerTreeNode
TreeNode(n, par, children, nodeType, embedded, embedded_project, layerId) ==
    [name |-> "node" \o ToString(n),
     parent |-> par,
     children |-> children,
     nodeType |-> nodeType,
     props |-> [embedded |-> embedded, embedded_project |-> embedded_project],
     visible |-> (n % 2 = 0),
     expanded |-> (n % 3 = 0),
     layerId |-> layerId]

\* a QgsMapLayer; only a vector layer has a geometryType() accessor
MapLayer(id, type, geometryType, notes) ==
    [id |-> id,
     type |-> type,
     geometryType |-> IF type = VectorLayer THEN geometryType
                      ELSE "AttributeError",
     isSpatial |-> ~(type = VectorLayer /\ geometryType = "NullGeometry"),
     abstract |-> "abstract of " \o id,
     title |-> "title of " \o id,
     metadata_abstract |-> "metadata abstract of " \o id,
     metadata_title |-> "metadata title of " \o id,
     notes |-> notes]

\* the nodes whose parent is n, in ascending or descending order
RECURSIVE ChildrenFrom(_, _, _, _)
ChildrenFrom(par, n, i, last) ==
    IF i > last THEN <<>>
    ELSE (IF par[i] = n THEN <<i>> ELSE <<>>) \o ChildrenFrom(par, n, i + 1, last)

RECURSIVE Reverse(_)
Reverse(s) == IF s = <<>> THEN <<>> ELSE Append(Reverse(Tail(s)), Head(s))

\* n is a or below a, following par
RECURSIVE IsBelowOrSelf(_, _, _)
IsBelowOrSelf(par, n, a) ==
    IF n = a THEN TRUE
    ELSE IF n = 0 THEN FALSE
    ELSE IsBelowOrSelf(par, par[n], a)

\* what a non-root node of a Spec project is: a group, a node of another
\* kind, or a layer node naming layer L1, L2 or an identifier no layer has
NodeShapes ==
    {[nodeType |-> NodeGroup, layerId |-> ""],
     [nodeType |-> NodeCustom, layerId |-> ""],
     [nodeType |-> NodeLayer, layerId |-> "L1"],
     [nodeType |-> NodeLayer, layerId |-> "L2"],
     [nodeType |-> NodeLayer, layerId |-> "Lx"]}

BuildLayers ==
    [id \in {"L1", "L2"} |->
        IF id = "L1" THEN MapLayer(id, VectorLayer, "PolygonGeometry", "notes of L1")
        ELSE MapLayer(id, "RasterLayer", "", "")]

BuildDoc ==
    <<MapLayerElement("L1", UserNotesElement(TRUE, "stale notes of L1")),
      MapLayerElement("L2", UserNotesElement(TRUE, "hello"))>>

WalkIdle ==
    /\ pc = "idle"
    /\ call = [uri |-> "", filename |-> ""]
    /\ stack = <<>>
    /\ result = NoResult
    /\ runs = 0
    /\ prev = NoOutcome
    /\ probe = NoProbe

\* the parent of every non-root node: an earlier node that is a group
ParentMaps(k, shape) ==
    {par \in [1..(k - 1) -> 0..(k - 1)] :
        \A i \in 1..(k - 1) :
            /\ par[i] < i
            /\ IF par[i] = 0 THEN TRUE ELSE shape[par[i]].nodeType = NodeGroup}

(* Spec: any tree of up to MaxNodes nodes.  The children of a group are in *)
(* ascending or descending node order.  At most one sub-tree is embedded,  *)
(* the way QGIS marks it: "embedded" on every node of the sub-tree,        *)
(* "embedded_project" on its top node only.                                *)
InitBuild ==
    /\ \E k \in 1..MaxNodes :
       \E shape \in [1..(k - 1) -> NodeShapes] :
       \E par \in ParentMaps(k, shape) :
       \E rev \in BOOLEAN :
       \E top \in (1..(k - 1)) \cup {NoNode} :
         /\ project =
              [absoluteFilePath |-> ProjectFile,
               root |-> 0,
               mapLayers |-> BuildLayers,
               tree |->
                 [n \in 0..(k - 1) |->
                    LET asc == ChildrenFrom(par, n, 1, k - 1)
                        in_top == top /= NoNode /\ IsBelowOrSelf(par, n, top)
                    IN  TreeNode(
                          n,
                          IF n = 0 THEN NoNode ELSE par[n],
                          IF rev THEN Reverse(asc) ELSE asc,
                          IF n = 0 THEN NodeGroup ELSE shape[n].nodeType,
                          IF in_top THEN PyStr("1") ELSE PyNone,
                          IF n = top THEN PyStr("./a.qgs") ELSE PyNone,
                          IF n = 0 THEN "" ELSE shape[n].layerId)]]
    /\ doc = BuildDoc
    /\ WalkIdle

Next ==
    \/ StartProject
    \/ EnterGroup
    \/ AppendLayer
    \/ LayerRaises
    \/ SkipChild
    \/ ReturnGroup
    \/ ReturnProject

Spec == InitBuild /\ [][Next]_vars

----------------------------------------------------------------------------
(* SpecEmbedded: a path from the root down to a node of depth at most      *)
(* MaxDepth, every node of it with any "embedded" and "embedded_project"   *)
(* property; the helpers of lines 60-101 are called on any of its nodes.   *)

\* values of the "embedded" property: missing, 0, "1"
EmbeddedValues == {PyNone, PyInt(0), PyStr("1")}

\* values of the "embedded_project" property: missing, empty, a path
\* relative to the project, an absolute path
EmbeddedProjectValues ==
    {PyNone, PyStr(""), PyStr("./a.qgs"), PyStr("/b.qgs")}

InitEmbedded ==
    /\ \E depth \in 0..MaxDepth :
       \E emb \in [0..depth -> EmbeddedValues] :
       \E ep \in [0..depth -> EmbeddedProjectValues] :
       \E leaf \in {NodeGroup, NodeLayer} :
         project =
           [absoluteFilePath |-> ProjectFile,
            root |-> 0,
            mapLayers |-> BuildLayers,
            tree |->
              [n \in 0..depth |->
                 LET is_layer == n = depth /\ n > 0 /\ leaf = NodeLayer
                 IN  TreeNode(
                       n,
                       IF n = 0 THEN NoNode ELSE n - 1,
                       IF n = depth THEN <<>> ELSE <<n + 1>>,
                       IF is_layer THEN NodeLayer ELSE NodeGroup,
                       emb[n],
                       ep[n],
                       IF is_layer THEN "L2" ELSE "")]]
    /\ doc = BuildDoc
    /\ WalkIdle

NextEmbedded ==
    \/ CallGetEmbeddedProject
    \/ CallReadEmbedded

SpecEmbedded == InitEmbedded /\ [][NextEmbedded]_vars

----------------------------------------------------------------------------
(* SpecNotes: the project  root -> [custom node, group -> [layer L1]]      *)
(* with a layer L1 of any kind (or no layer L1 at all) and any document of *)
(* at most MaxDocLen "maplayer" elements.                                  *)

DocIds == {"L1", "L2"}

UserNotesElements ==
    {NullNode,
     UserNotesElement(FALSE, ""),
     UserNotesElement(TRUE, "hello"),
     UserNotesElement(TRUE, "bye")}

MapLayerElements ==
    {MapLayerElement(id, u) : id \in DocIds, u \in UserNotesElements}

Docs == UNION {[1..n -> MapLayerElements] : n \in 0..MaxDocLen}

\* the layers a project can hold under identifier L1
NotesLayers ==
    {MapLayer("L1", VectorLayer, g, notes) :
        g \in {"PolygonGeometry", "NullGeometry"}, notes \in {"", "api notes"}}
    \cup
    {MapLayer("L1", type, "", notes) :
        type \in LayerTypes \ {VectorLayer}, notes \in {"", "api notes"}}

NotesTree ==
    [n \in 0..3 |->
        CASE n = 0 -> TreeNode(n, NoNode, <<1, 2>>, NodeGroup, PyNone, PyNone, "")
          [] n = 1 -> TreeNode(n, 0, <<>>, NodeCustom, PyNone, PyNone, "")
          [] n = 2 -> TreeNode(n, 0, <<3>>, NodeGroup, PyNone, PyNone, "")
          [] n = 3 -> TreeNode(n, 2, <<>>, NodeLayer, PyNone, PyNone, "L1")]

InitNotes ==
    /\ \E registry \in {<<>>} \cup {[id \in {"L1"} |-> l] : l \in NotesLayers} :
         project = [absoluteFilePath |-> ProjectFile,
                    root |-> 0,
                    mapLayers |-> registry,
                    tree |-> NotesTree]
    /\ doc \in Docs
    /\ WalkIdle

NextNotes ==
    \/ StartProject
    \/ EnterGroup
    \/ AppendLayer
    \/ LayerRaises
    \/ SkipChild
    \/ ReturnGroup
    \/ ReturnProject
    \/ CallLayerUserNotes
    \/ CallLayerMenuConfig

SpecNotes == InitNotes /\ [][NextNotes]_vars

----------------------------------------------------------------------------
(* Vocabulary of the properties.                                           *)

Tree == project.tree
IsGroupOrLayer(n) == Tree[n].nodeType \in {NodeGroup, NodeLayer}

\* the first `upto` children of g that are groups or layers, in the order
\* of children()
Kept(g, upto) ==
    SelectSeq(SubSeq(Tree[g].children, 1, upto), IsGroupOrLayer)

\* a layer node whose identifier the project does not resolve
IsStale(n) ==
    Tree[n].nodeType = NodeLayer /\ mapLayer(project, Tree[n].layerId) = NoLayer

HasStale == \E n \in DOMAIN Tree : IsStale(n)

\* number of parent links between n and the root
RECURSIVE Depth(_)
Depth(n) == IF Tree[n].parent = NoNode THEN 0 ELSE 1 + Depth(Tree[n].parent)

\* n, its parent, its grandparent, ... up to the root
RECURSIVE PathToRoot(_)
PathToRoot(n) ==
    IF Tree[n].parent = NoNode THEN <<n>> ELSE <<n>> \o PathToRoot(Tree[n].parent)

\* the resolved "embedded_project" path of node n alone
OwnPath(n) == readPath(project, Tree[n].props.embedded_project)

MarkedEmbedded(n) == Truthy(Tree[n].props.embedded)

\* cfg is the config of node n: same kind, same name, same layer, and for a
\* group one entry per group or layer child, in order, each the config of
\* that child
RECURSIVE ConfigOf(_, _)
ConfigOf(cfg, n) ==
    /\ cfg.name = Tree[n].name
    /\ IF Tree[n].nodeType = NodeLayer
       THEN /\ cfg.kind = "MenuLayerConfig"
            /\ cfg.layer_id = Tree[n].layerId
       ELSE /\ Tree[n].nodeType = NodeGroup
            /\ cfg.kind = "MenuGroupConfig"
            /\ LET kept == Kept(n, Len(Tree[n].children))
               IN  /\ Len(cfg.childs) = Len(kept)
                   /\ \A j \in 1..Len(kept) : ConfigOf(cfg.childs[j], kept[j])

----------------------------------------------------------------------------
\* C1: the childs of a group's config hold exactly one entry per child that
\* is a group or a layer, in the order of children(), a MenuGroupConfig for
\* a group and a MenuLayerConfig for a layer, at every level of the tree;
\* this holds of the finished config and of every activation under way (for
\* the children its loop has passed); a child of another kind adds no entry
\* and the build fails only if some layer node is stale.
C1_ChildsMirrorChildren ==
    /\ pc = "done" => ConfigOf(result.root_group, project.root)
    /\ \A f \in 1..Len(stack) :
         LET kept == Kept(stack[f].node, stack[f].i - 1)
         IN  /\ Len(stack[f].childs) = Len(kept)
             /\ \A j \in 1..Len(kept) : ConfigOf(stack[f].childs[j], kept[j])
    /\ pc = "failed" => HasStale

\* a finished build of a root whose three children, in descending node
\* order, are a layer, a node of another kind and a group
C1_Witness ==
    /\ pc = "done"
    /\ Len(Tree[0].children) = 3
    /\ Tree[0].children[1] > Tree[0].children[2]
    /\ \E a, b, c \in DOMAIN Tree :
         /\ {a, b, c} = {Tree[0].children[j] : j \in 1..3}
         /\ Tree[a].nodeType = NodeLayer
         /\ Tree[b].nodeType = NodeCustom
         /\ Tree[c].nodeType = NodeGroup
    /\ Len(result.root_group.childs) = 2

\* every MenuLayerConfig inside a config (a layer's or a group's)
RECURSIVE LayerConfigsIn(_)
LayerConfigsIn(cfg) ==
    IF cfg.kind = "MenuLayerConfig" THEN {cfg}
    ELSE UNION {LayerConfigsIn(cfg.childs[j]) : j \in 1..Len(cfg.childs)}

\* every MenuLayerConfig the program holds: returned by a direct call of
\* get_layer_menu_config, collected by an activation, or in the result
AllLayerConfigs ==
    (IF probe.op = "get_layer_menu_config" /\ ~probe.out.raised
     THEN {probe.out.value} ELSE {})
    \cup UNION {UNION {LayerConfigsIn(stack[f].childs[j]) :
                         j \in 1..Len(stack[f].childs)} : f \in 1..Len(stack)}
    \cup (IF pc = "done" THEN LayerConfigsIn(result.root_group) ELSE {})

\* C2: in every MenuLayerConfig, geometry_type is set exactly when
\* layer_type is vector; for every other layer kind it is None.
C2_GeometryIffVector ==
    \A c \in AllLayerConfigs :
        (c.geometry_type /= NoGeometry) <=> (c.layer_type = VectorLayer)

\* a finished build whose tree holds the config of a point-cloud layer,
\* with no geometry type
C2_Witness ==
    /\ pc = "done"
    /\ \E c \in LayerConfigsIn(result.root_group) :
         c.layer_type = "PointCloudLayer" /\ c.geometry_type = NoGeometry

----------------------------------------------------------------------------
\* C3: read_embedded_properties of a node whose own "embedded" property is
\* not truthy is (False, project.absoluteFilePath()), whatever the node's
\* own "embedded_project" and whatever its ancestors carry.
C3_NotMarkedGivesProjectFile ==
    (probe.op = "read_embedded_properties" /\ ~MarkedEmbedded(probe.node))
        => probe.out = [embedded |-> FALSE,
                        filename |-> project.absoluteFilePath]

\* the call on an unmarked node below the root that has a path of its own
\* and a marked parent with another path
C3_Witness ==
    /\ probe.op = "read_embedded_properties"
    /\ ~MarkedEmbedded(probe.node)
    /\ Tree[probe.node].parent /= NoNode
    /\ OwnPath(probe.node) = "/b.qgs"
    /\ MarkedEmbedded(Tree[probe.node].parent)
    /\ OwnPath(Tree[probe.node].parent) = "/proj/a.qgs"
    /\ probe.out.filename = ProjectFile

\* the positions of PathToRoot(n) whose node has a non-empty resolved path
Resolvable(n) ==
    {j \in 1..Len(PathToRoot(n)) : OwnPath(PathToRoot(n)[j]) /= ""}

\* C4: read_embedded_properties of a node marked "embedded" gives the
\* resolved "embedded_project" path of the nearest node, from the node
\* itself up to the root, whose resolved path is not empty, whether or not
\* that node is marked itself.
C4_NearestEmbeddedProject ==
    (/\ probe.op = "read_embedded_properties"
     /\ MarkedEmbedded(probe.node)
     /\ Resolvable(probe.node) /= {})
        => LET near == CHOOSE j \in Resolvable(probe.node) :
                           \A k \in Resolvable(probe.node) : j <= k
           IN  /\ probe.out.embedded
               /\ probe.out.filename = OwnPath(PathToRoot(probe.node)[near])

\* the call on a marked node with an empty path of its own, whose unmarked
\* parent has one and whose grandparent has another
C4_Witness ==
    /\ probe.op = "read_embedded_properties"
    /\ MarkedEmbedded(probe.node)
    /\ Depth(probe.node) = 2
    /\ Tree[probe.node].props.embedded_project = PyStr("")
    /\ ~MarkedEmbedded(Tree[probe.node].parent)
    /\ OwnPath(Tree[probe.node].parent) = "/proj/a.qgs"
    /\ OwnPath(Tree[Tree[probe.node].parent].parent) = "/b.qgs"
    /\ probe.out.filename = "/proj/a.qgs"

\* C5: get_embedded_project_from_layer_tree takes at most Depth(node)
\* parent steps; when no node up to the root has a resolvable path it takes
\* exactly that many, ends at the root and returns "", and
\* read_embedded_properties of a marked node is then (True, ""), never the
\* project's own file.
C5_UnresolvedEndsAtRootEmpty ==
    /\ probe.op = "get_embedded_project_from_layer_tree"
         => /\ probe.ups <= Depth(probe.node)
            /\ Resolvable(probe.node) = {}
                 => probe.out = "" /\ probe.ups = Depth(probe.node)
    /\ (/\ probe.op = "read_embedded_properties"
        /\ MarkedEmbedded(probe.node)
        /\ Resolvable(probe.node) = {})
         => probe.out = [embedded |-> TRUE, filename |-> ""]

\* the call on a marked node two levels below the root, no node of its path
\* having a resolvable path
C5_Witness ==
    /\ probe.op = "read_embedded_properties"
    /\ MarkedEmbedded(probe.node)
    /\ Depth(probe.node) = 2
    /\ Resolvable(probe.node) = {}
    /\ embedded_project_call(probe.node, project, 0).ups = 2
    /\ probe.out.filename = ""

----------------------------------------------------------------------------
\* the positions of the "maplayer" elements of the document with this id
Matching(id) == {i \in 1..Len(doc) : doc[i].id = id}

\* the first of them in document order
FirstMatching(id) == CHOOSE i \in Matching(id) : \A j \in Matching(id) : i <= j

\* the document gives no note for this id: no element has the id, or the
\* first that has it has no userNotes child, or that child has no value
NoNoteInDoc(id) ==
    \/ Matching(id) = {}
    \/ doc[FirstMatching(id)].userNotes.isNull
    \/ ~doc[FirstMatching(id)].userNotes.hasValue

\* C6: get_layer_user_notes of a vector layer is what the notes accessor
\* gives, whatever the document holds; of any other layer it is the "value"
\* of the userNotes child of the first "maplayer" element with the layer's
\* id, whatever the accessor gives.
C6_NotesSourceByKind ==
    probe.op = "get_layer_user_notes" =>
        LET layer == project.mapLayers[probe.layer]
        IN  IF layer.type = VectorLayer
            THEN probe.out = Returned(layer.notes)
            ELSE ~NoNoteInDoc(layer.id) =>
                   probe.out =
                     Returned(doc[FirstMatching(layer.id)].userNotes.value)

\* the call for a raster layer L1 with notes behind the accessor, on a
\* document with two elements of id L1, "hello" first and "bye" second
C6_Witness ==
    /\ probe.op = "get_layer_user_notes"
    /\ project.mapLayers[probe.layer].type = "RasterLayer"
    /\ project.mapLayers[probe.layer].notes = "api notes"
    /\ doc = <<MapLayerElement("L1", UserNotesElement(TRUE, "hello")),
               MapLayerElement("L1", UserNotesElement(TRUE, "bye"))>>
    /\ probe.out = Returned("hello")

\* C7: for a layer that is not a vector layer and for which the document
\* gives no note, get_layer_user_notes returns "" and raises nothing, the
\* build finishes whenever the layer exists, and the layer's config has
\* layer_notes = "".
C7_MissingNotesGiveEmpty ==
    /\ probe.op = "get_layer_user_notes" =>
         LET layer == project.mapLayers[probe.layer]
         IN  (layer.type /= VectorLayer /\ NoNoteInDoc(layer.id))
                => probe.out = Returned("")
    /\ ~HasStale => pc /= "failed"
    /\ \A c \in AllLayerConfigs :
         (c.layer_type /= VectorLayer /\ NoNoteInDoc(c.layer_id))
            => c.layer_notes = ""

\* a finished build with a mesh layer L1 that has notes behind the
\* accessor; the first element of id L1 has a userNotes child without
\* value, a second one has one with a value
C7_Witness ==
    /\ pc = "done"
    /\ doc = <<MapLayerElement("L1", UserNotesElement(FALSE, "")),
               MapLayerElement("L1", UserNotesElement(TRUE, "hello"))>>
    /\ \E c \in LayerConfigsIn(result.root_group) :
         /\ c.layer_type = "MeshLayer"
         /\ project.mapLayers[c.layer_id].notes = "api notes"
         /\ c.layer_notes = ""

----------------------------------------------------------------------------
\* C8: no step of a build, and no call of a helper, changes the project
\* (tree, custom properties, flags, layer registry) or the document.
C8_HostUnchanged == [][project' = project /\ doc' = doc]_vars

\* a second build has failed after a first one on a tree with a group, a
\* node of another kind and a stale layer
C8_Witness ==
    /\ pc = "failed"
    /\ runs = 2
    /\ prev.pc = "failed"
    /\ \E g, c \in DOMAIN Tree :
         /\ Tree[g].nodeType = NodeGroup /\ g /= 0
         /\ Tree[c].nodeType = NodeCustom

\* C9: with a stale layer node anywhere in the tree no build returns a
\* MenuProjectConfig; a build under way can always take a step, and a
\* failed build leaves the raised error and nothing else: no partial tree.
C9_StaleLayerFailsBuild ==
    /\ HasStale => pc /= "done" /\ result.kind /= "MenuProjectConfig"
    /\ pc = "walking" =>
         ENABLED (EnterGroup \/ AppendLayer \/ LayerRaises \/ SkipChild
                    \/ ReturnGroup \/ ReturnProject)
    /\ pc = "failed" =>
         /\ HasStale
         /\ result = [kind |-> "Raised", exc |-> "AttributeError"]
         /\ stack = <<>>

\* a failed build whose stale layer sits in a nested group, the root having
\* a valid layer before that group
C9_Witness ==
    /\ pc = "failed"
    /\ \E n, m \in DOMAIN Tree :
         /\ IsStale(n)
         /\ Tree[n].parent /= 0
         /\ Tree[m].nodeType = NodeLayer /\ ~IsStale(m)
         /\ Tree[0].children = <<m, Tree[n].parent>>

----------------------------------------------------------------------------
\* the config of group g as a function of g's sub-tree, the properties on
\* its path to the root, the project and the document alone
RECURSIVE GroupConfigOf(_)
GroupConfigOf(g) ==
    LET kept == Kept(g, Len(Tree[g].children))
        ep == read_embedded_properties(g, project)
    IN  [kind |-> "MenuGroupConfig",
         name |-> Tree[g].name,
         embedded |-> ep.embedded,
         filename |-> ep.filename,
         childs |->
           [j \in 1..Len(kept) |->
              IF Tree[kept[j]].nodeType = NodeGroup
              THEN GroupConfigOf(kept[j])
              ELSE get_layer_menu_config(kept[j], project, doc).value]]

\* C10: a second build with the same uri ends like the first, with an equal
\* MenuProjectConfig; a MenuProjectConfig carries the project's file and
\* the uri passed; and every config a build holds for a child is
\* GroupConfigOf / get_layer_menu_config of that child, whatever was
\* visited before it and whatever an earlier build did.
C10_BuildIsAFunctionOfItsInputs ==
    /\ (/\ pc \in {"done", "failed"}
        /\ prev.pc /= "none"
        /\ prev.call.uri = call.uri)
         => prev.pc = pc /\ prev.result = result
    /\ pc = "done" =>
         /\ result.filename = project.absoluteFilePath
         /\ result.uri = call.uri
         /\ result.root_group = GroupConfigOf(project.root)
    /\ \A f \in 1..Len(stack) :
         LET kept == Kept(stack[f].node, stack[f].i - 1)
         IN  \A j \in 1..Len(stack[f].childs) :
               j <= Len(kept) =>
                 stack[f].childs[j] =
                   IF Tree[kept[j]].nodeType = NodeGroup
                   THEN GroupConfigOf(kept[j])
                   ELSE get_layer_menu_config(kept[j], project, doc).value

\* a second build with the uri of the first has finished, on a tree with an
\* embedded group holding a layer
C10_Witness ==
    /\ pc = "done"
    /\ runs = 2
    /\ prev.pc = "done"
    /\ prev.call.uri = call.uri
    /\ \E g, l \in DOMAIN Tree :
         /\ Tree[g].nodeType = NodeGroup /\ MarkedEmbedded(g)
         /\ Tree[l].nodeType = NodeLayer /\ Tree[l].parent = g
    /\ result.root_group.childs /= <<>>

====
